---- MODULE Spec2Model ----
(***************************************************************************)
(* The friend-request workflow of routes/friend.js over the User           *)
(* collection of models/User.js.                                           *)
(*                                                                         *)
(* A request handler is an async function: it runs without interruption    *)
(* up to each `await` and other handlers run in between.  The awaits of    *)
(* the four POST handlers are User.findById(userId),                       *)
(* User.findById(friendId), user.save() and friend.save().                 *)
(*                                                                         *)
(* A loaded document is a private copy.  save() sends the changes made to  *)
(* the copy: an array changed by push() is sent as a $push of the pushed   *)
(* elements, an array that was assigned is sent as a $set of the whole     *)
(* array together with a check of the version key __v, and every array     *)
(* change increments __v.  A failed version check makes save() throw.      *)
(***************************************************************************)
EXTENDS Integers, Sequences, FiniteSets, TLC

VARIABLES db, hnd

vars == <<db, hnd>>

\* The registered users (their _id), an id of no user, and a string that is
\* no ObjectId.
Users == {"a", "b", "c"}
Ghost == "g"
Malformed == "bad"
Ids == Users \cup {Ghost, Malformed}

\* The (userId, friendId) bodies the requests are drawn from: every pair of
\* users, and bodies with an unknown and with a malformed id.
Bodies ==
    (Users \X Users)
        \cup {<<Ghost, "a">>, <<"b", Ghost>>, <<"b", Malformed>>}

\* The bodies of the requests that run concurrently: two users, and on to the
\* third.
ConcBodies == ({"a", "b"} \X {"a", "b"}) \cup {<<"b", "c">>, <<Ghost, "a">>}

\* The request handlers that may be in flight together.
Handlers == {1, 2}

\* Bound on the notifications stored over all users, when one request runs
\* after the other and when requests run concurrently.
MaxNotes == 4
MaxConcNotes == 3
MaxRecNotes == 6

Ops == {"request", "accept", "reject", "unfriend"}

Username == [u \in Users |-> CASE u = "a" -> "alice" [] u = "b" -> "bob" [] OTHER -> "carol"]

isValid(id) == id # Malformed

includes(arr, id) == \E i \in 1..Len(arr) : arr[i] = id

filter(arr, id) == SelectSeq(arr, LAMBDA x : x # id)

\* ------------------------------------------------------------ responses
Response(status, msg) == [status |-> status, msg |-> msg]

NoResponse == Response(0, "")
InvalidIds == Response(400, "Invalid user IDs")
SelfRequest == Response(400, "You cannot add yourself as a friend.")
UserNotFound == Response(404, "User not found")
AlreadyFriends == Response(400, "You are already friends.")
DuplicateRequest == Response(400, "Friend request already sent.")
NoSuchRequest == Response(400, "No friend request from this user.")
ServerError == Response(500, "Server error, please try again.")
RequestSent == Response(200, "Friend request sent")
RequestAccepted == Response(200, "Friend request accepted.")
RequestRejected == Response(200, "Friend request rejected.")
Unfriended == Response(200, "Unfriended successfully.")

\* ------------------------------------------------------------ documents
\* A stored user: the arrays of the schema and the version key.
NewUser == [friends |-> <<>>, friendRequests |-> <<>>, interests |-> <<>>,
            notifications |-> <<>>, v |-> 0]

\* What findById resolves to when no record has the id.
NullDoc ==
    [found |-> FALSE, id |-> Ghost, friends |-> <<>>, friendRequests |-> <<>>, v |-> 0,
     pushFriends |-> <<>>, pushRequests |-> <<>>, pushNotes |-> <<>>,
     setFriends |-> FALSE, setRequests |-> FALSE]

\* User.findById(id): a private copy of the stored record, nothing changed yet.
findById(store, id) ==
    IF id \in Users
    THEN [NullDoc EXCEPT !.found = TRUE, !.id = id,
                         !.friends = store[id].friends,
                         !.friendRequests = store[id].friendRequests,
                         !.v = store[id].v]
    ELSE NullDoc

\* doc.friends.push(id)
pushFriend(doc, id) ==
    [doc EXCEPT !.friends = Append(@, id), !.pushFriends = Append(@, id)]

\* doc.friendRequests.push(id)
pushRequest(doc, id) ==
    [doc EXCEPT !.friendRequests = Append(@, id), !.pushRequests = Append(@, id)]

\* The notification `${user.username}${text}`.
Note(from, text) == [from |-> Username[from], text |-> text]

\* doc.notifications.push({ message })
pushNotification(doc, from, text) ==
    [doc EXCEPT !.pushNotes = Append(@, Note(from, text))]

\* doc.friends = doc.friends.filter(other ids): an assignment that changes
\* nothing leaves the path unmodified.
filterFriends(doc, id) ==
    [doc EXCEPT !.friends = filter(@, id),
                !.setFriends = @ \/ filter(doc.friends, id) # doc.friends]

\* doc.friendRequests = doc.friendRequests.filter(other ids)
filterRequests(doc, id) ==
    [doc EXCEPT !.friendRequests = filter(@, id),
                !.setRequests = @ \/ filter(doc.friendRequests, id) # doc.friendRequests]

\* Whether save() has anything to send.
isModified(doc) ==
    \/ doc.setFriends \/ doc.setRequests
    \/ doc.pushFriends # <<>> \/ doc.pushRequests # <<>> \/ doc.pushNotes # <<>>

\* save that stores the notifications of the copy in place of the stored ones.
saveOverwritesNotes(store, doc) ==
    LET cur == store[doc.id]
        versioned == doc.setFriends \/ doc.setRequests
    IN  IF ~isModified(doc) THEN [ok |-> TRUE, db |-> store]
        ELSE IF versioned /\ cur.v # doc.v THEN [ok |-> FALSE, db |-> store]
        ELSE [ok |-> TRUE,
              db |-> [store EXCEPT ![doc.id] =
                        [friends |-> IF doc.setFriends THEN doc.friends
                                     ELSE cur.friends \o doc.pushFriends,
                         friendRequests |-> IF doc.setRequests THEN doc.friendRequests
                                            ELSE cur.friendRequests \o doc.pushRequests,
                         notifications |-> doc.pushNotes,
                         interests |-> cur.interests,
                         v |-> cur.v + 1]]]

\* doc.save(): [ok, db].
save(store, doc) ==
    LET cur == store[doc.id]
        versioned == doc.setFriends \/ doc.setRequests
    IN  IF ~isModified(doc) THEN [ok |-> TRUE, db |-> store]
        ELSE IF versioned /\ cur.v # doc.v THEN [ok |-> FALSE, db |-> store]
        ELSE [ok |-> TRUE,
              db |-> [store EXCEPT ![doc.id] =
                        [friends |-> IF doc.setFriends THEN doc.friends
                                     ELSE cur.friends \o doc.pushFriends,
                         friendRequests |-> IF doc.setRequests THEN doc.friendRequests
                                            ELSE cur.friendRequests \o doc.pushRequests,
                         notifications |-> cur.notifications \o doc.pushNotes,
                         interests |-> cur.interests,
                         v |-> cur.v + 1]]]

\* ------------------------------------------------------------- handlers
\* A handler: where it stands, its request, its two documents, the records
\* its saves have written so far, its response.
Idle ==
    [pc |-> "idle", op |-> "request", userId |-> Ghost, friendId |-> Ghost,
     user |-> NullDoc, friend |-> NullDoc, written |-> <<>>, res |-> NoResponse]

Respond(h, res) ==
    [h EXCEPT !.pc = "done", !.user = NullDoc, !.friend = NullDoc, !.res = res]

\* begin without the check of userId === friendId.
beginWithoutSelfCheck(store, op, userId, friendId) ==
    LET h == [Idle EXCEPT !.op = op, !.userId = userId, !.friendId = friendId]
    IN  IF ~isValid(userId) \/ ~isValid(friendId) THEN Respond(h, InvalidIds)
        ELSE [h EXCEPT !.pc = "findFriend", !.user = findById(store, userId)]

\* The handler up to the answer of User.findById(userId).
begin(store, op, userId, friendId) ==
    LET h == [Idle EXCEPT !.op = op, !.userId = userId, !.friendId = friendId]
    IN  IF ~isValid(userId) \/ ~isValid(friendId) THEN Respond(h, InvalidIds)
        ELSE IF op = "request" /\ userId = friendId THEN Respond(h, SelfRequest)
        ELSE [h EXCEPT !.pc = "findFriend", !.user = findById(store, userId)]

\* POST /request from the answer of User.findById(friendId) to friend.save().
requestChecks(h, user, friend) ==
    IF ~user.found \/ ~friend.found THEN Respond(h, UserNotFound)
    ELSE IF includes(user.friends, h.friendId) \/ includes(friend.friends, h.userId)
    THEN Respond(h, AlreadyFriends)
    ELSE IF includes(friend.friendRequests, h.userId) THEN Respond(h, DuplicateRequest)
    ELSE [h EXCEPT !.pc = "saveFriend",
                   !.friend = pushNotification(pushRequest(friend, h.userId),
                                               user.id, " has sent you a friend request.")]

\* acceptChecks without friend.friends.push(userId).
acceptOneSided(h, user, friend) ==
    IF ~user.found \/ ~friend.found THEN Respond(h, UserNotFound)
    ELSE IF ~includes(user.friendRequests, h.friendId) THEN Respond(h, NoSuchRequest)
    ELSE [h EXCEPT !.pc = "saveUser",
                   !.user = filterRequests(pushFriend(user, h.friendId), h.friendId),
                   !.friend = pushNotification(friend, user.id,
                                               " has accepted your friend request.")]

\* acceptChecks without the removal of the friend request.
acceptKeepsRequest(h, user, friend) ==
    IF ~user.found \/ ~friend.found THEN Respond(h, UserNotFound)
    ELSE IF ~includes(user.friendRequests, h.friendId) THEN Respond(h, NoSuchRequest)
    ELSE [h EXCEPT !.pc = "saveUser",
                   !.user = pushFriend(user, h.friendId),
                   !.friend = pushNotification(pushFriend(friend, h.userId),
                                               user.id, " has accepted your friend request.")]

\* acceptChecks with the notification pushed to the accepting user.
acceptNotifiesAccepter(h, user, friend) ==
    IF ~user.found \/ ~friend.found THEN Respond(h, UserNotFound)
    ELSE IF ~includes(user.friendRequests, h.friendId) THEN Respond(h, NoSuchRequest)
    ELSE [h EXCEPT !.pc = "saveUser",
                   !.user = pushNotification(
                                filterRequests(pushFriend(user, h.friendId), h.friendId),
                                user.id, " has accepted your friend request."),
                   !.friend = pushFriend(friend, h.userId)]

\* POST /accept from the answer of User.findById(friendId) to user.save().
acceptChecks(h, user, friend) ==
    IF ~user.found \/ ~friend.found THEN Respond(h, UserNotFound)
    ELSE IF ~includes(user.friendRequests, h.friendId) THEN Respond(h, NoSuchRequest)
    ELSE [h EXCEPT !.pc = "saveUser",
                   !.user = filterRequests(pushFriend(user, h.friendId), h.friendId),
                   !.friend = pushNotification(pushFriend(friend, h.userId),
                                               user.id, " has accepted your friend request.")]

\* POST /reject from the answer of User.findById(friendId) to user.save().
rejectChecks(h, user, friend) ==
    IF ~user.found \/ ~friend.found THEN Respond(h, UserNotFound)
    ELSE IF ~includes(user.friendRequests, h.friendId) THEN Respond(h, NoSuchRequest)
    ELSE [h EXCEPT !.pc = "saveUser",
                   !.user = filterRequests(user, h.friendId),
                   !.friend = pushNotification(friend, user.id,
                                               " has rejected your friend request.")]

\* POST /unfriend from the answer of User.findById(friendId) to user.save().
unfriendChecks(h, user, friend) ==
    IF ~user.found \/ ~friend.found THEN Respond(h, UserNotFound)
    ELSE [h EXCEPT !.pc = "saveUser",
                   !.user = filterFriends(user, h.friendId),
                   !.friend = pushNotification(filterFriends(friend, h.userId),
                                               user.id, " has unfriended you.")]

Success(op) ==
    CASE op = "request" -> RequestSent
      [] op = "accept" -> RequestAccepted
      [] op = "reject" -> RequestRejected
      [] OTHER -> Unfriended

\* One step of a handler, from one await to the next: [db, h].
step(store, h) ==
    CASE h.pc = "findFriend" ->
            LET friend == findById(store, h.friendId)
            IN  [db |-> store,
                 h |-> CASE h.op = "request" -> requestChecks(h, h.user, friend)
                         [] h.op = "accept" -> acceptChecks(h, h.user, friend)
                         [] h.op = "reject" -> rejectChecks(h, h.user, friend)
                         [] OTHER -> unfriendChecks(h, h.user, friend)]
      [] h.pc = "saveUser" ->
            LET r == save(store, h.user)
            IN  [db |-> r.db,
                 h |-> IF r.ok
                       THEN [h EXCEPT !.pc = "saveFriend",
                                      !.written = IF isModified(h.user)
                                                  THEN Append(@, h.user.id) ELSE @]
                       ELSE Respond(h, ServerError)]
      [] h.pc = "saveFriend" ->
            LET r == save(store, h.friend)
            IN  [db |-> r.db,
                 h |-> IF r.ok
                       THEN Respond([h EXCEPT !.written = IF isModified(h.friend)
                                                          THEN Append(@, h.friend.id)
                                                          ELSE @],
                                    Success(h.op))
                       ELSE Respond(h, ServerError)]
      [] OTHER -> [db |-> store, h |-> h]

\* A handler run from its start to its response with no other handler in
\* between.
RECURSIVE run(_, _)
run(store, h) ==
    IF h.pc \in {"idle", "done"} THEN [db |-> store, h |-> h]
    ELSE LET w == step(store, h) IN run(w.db, w.h)

\* ------------------------------------------------------ recommendations
\* The order in which User.find returns the collection.
FindOrder == <<"a", "b", "c">>

\* recommendations[id] is set.
hasEntry(recs, id) == \E i \in 1..Len(recs) : recs[i].id = id

\* user.interests.filter(interest => potentialFriend.interests.includes(interest)).length
commonInterests(user, potentialFriend) ==
    Len(SelectSeq(user.interests, LAMBDA interest : includes(potentialFriend.interests, interest)))

\* User.find({_id: {$ne: userId}, interests: {$in: user.interests}})
commonInterestUsers(store, userId) ==
    SelectSeq(FindOrder,
              LAMBDA id : /\ id # userId
                          /\ \E i \in 1..Len(store[id].interests) :
                                includes(store[userId].interests, store[id].interests[i]))

\* Step 1 without the test that skips direct friends.
RECURSIVE interestPassKeepsFriends(_, _, _, _)
interestPassKeepsFriends(store, userId, found, recs) ==
    IF found = <<>> THEN recs
    ELSE LET id == Head(found)
         IN  interestPassKeepsFriends(store, userId, Tail(found),
                 IF hasEntry(recs, id) THEN recs
                 ELSE Append(recs, [id |-> id, username |-> Username[id],
                                    commonInterests |-> commonInterests(store[userId], store[id]),
                                    mutualFriends |-> 0]))

\* Step 1: the users sharing an interest, in the order found.
RECURSIVE interestPass(_, _, _, _)
interestPass(store, userId, found, recs) ==
    IF found = <<>> THEN recs
    ELSE LET id == Head(found)
         IN  interestPass(store, userId, Tail(found),
                 IF includes(store[userId].friends, id) \/ hasEntry(recs, id) THEN recs
                 ELSE Append(recs, [id |-> id, username |-> Username[id],
                                    commonInterests |-> commonInterests(store[userId], store[id]),
                                    mutualFriends |-> 0]))

\* recommendations[id] created when absent, then mutualFriends += 1.
countMutual(recs, id) ==
    LET present == IF hasEntry(recs, id) THEN recs
                   ELSE Append(recs, [id |-> id, username |-> Username[id],
                                      commonInterests |-> 0, mutualFriends |-> 0])
    IN  [i \in 1..Len(present) |->
            IF present[i].id = id
            THEN [present[i] EXCEPT !.mutualFriends = present[i].mutualFriends + 1]
            ELSE present[i]]

\* The inner loop of step 2 over the friends of one friend.
RECURSIVE friendsOfFriend(_, _, _, _)
friendsOfFriend(store, userId, theirs, recs) ==
    IF theirs = <<>> THEN recs
    ELSE LET mutualFriend == Head(theirs)
         IN  friendsOfFriend(store, userId, Tail(theirs),
                 IF mutualFriend = userId \/ includes(store[userId].friends, mutualFriend)
                 THEN recs
                 ELSE countMutual(recs, mutualFriend))

\* Step 2: the outer loop over user.friends.
RECURSIVE mutualPass(_, _, _, _)
mutualPass(store, userId, friends, recs) ==
    IF friends = <<>> THEN recs
    ELSE mutualPass(store, userId, Tail(friends),
                    friendsOfFriend(store, userId, store[Head(friends)].friends, recs))

\* (a, b) => b.commonInterests - a.commonInterests || b.mutualFriends - a.mutualFriends
compare(a, b) ==
    IF b.commonInterests - a.commonInterests # 0
    THEN b.commonInterests - a.commonInterests
    ELSE b.mutualFriends - a.mutualFriends

\* The entries left in the order of Object.entries.
sortNothing(recs) == recs

\* x put behind every entry of the sorted list that does not sort after it.
RECURSIVE insertSorted(_, _)
insertSorted(sorted, x) ==
    IF sorted = <<>> THEN <<x>>
    ELSE IF compare(Head(sorted), x) <= 0
         THEN <<Head(sorted)>> \o insertSorted(Tail(sorted), x)
         ELSE <<x>> \o sorted

\* Array.prototype.sort with the comparator: a stable sort.
RECURSIVE sort(_)
sort(recs) ==
    IF recs = <<>> THEN <<>>
    ELSE insertSorted(sort(SubSeq(recs, 1, Len(recs) - 1)), recs[Len(recs)])

\* The recommendations array of GET /:userId/recommendations for a stored user.
recommend(store, userId) ==
    sort(mutualPass(store, userId, store[userId].friends,
                    interestPass(store, userId, commonInterestUsers(store, userId), <<>>)))

InvalidUserId == Response(400, "Invalid user ID")
Recommendations(list) == [status |-> 200, msg |-> "", recommendations |-> list]

\* The response of GET /:userId/recommendations.
getRecommendations(store, userId) ==
    IF ~isValid(userId) THEN InvalidUserId
    ELSE IF userId \notin Users THEN UserNotFound
    ELSE Recommendations(recommend(store, userId))

\* ---------------------------------------------------------------- state
TotalNotes == Len(db["a"].notifications) + Len(db["b"].notifications)
                + Len(db["c"].notifications)

InFlight(h) == hnd[h].pc \notin {"idle", "done"}

NumInFlight == Cardinality({h \in Handlers : InFlight(h)})

Init ==
    /\ db = [u \in Users |-> NewUser]
    /\ hnd = [h \in Handlers |-> Idle]

\* ------------------------------------------- one request after the other
\* What stays of a handler that has answered: the route and the response.
Answer(h) == [Idle EXCEPT !.pc = "done", !.op = h.op, !.res = h.res]

\* POST /<op> with body (userId, friendId), from the request to the response.
Call(op, userId, friendId) == run(db, begin(db, op, userId, friendId))

sendRequest ==
    /\ TotalNotes < MaxNotes
    /\ \E b \in Bodies :
          /\ db' = Call("request", b[1], b[2]).db
          /\ hnd' = [hnd EXCEPT ![1] = Answer(Call("request", b[1], b[2]).h)]

acceptRequest ==
    /\ TotalNotes < MaxNotes
    /\ \E b \in Bodies :
          /\ db' = Call("accept", b[1], b[2]).db
          /\ hnd' = [hnd EXCEPT ![1] = Answer(Call("accept", b[1], b[2]).h)]

rejectRequest ==
    /\ TotalNotes < MaxNotes
    /\ \E b \in Bodies :
          /\ db' = Call("reject", b[1], b[2]).db
          /\ hnd' = [hnd EXCEPT ![1] = Answer(Call("reject", b[1], b[2]).h)]

unfriend ==
    /\ TotalNotes < MaxNotes
    /\ \E b \in Bodies :
          /\ db' = Call("unfriend", b[1], b[2]).db
          /\ hnd' = [hnd EXCEPT ![1] = Answer(Call("unfriend", b[1], b[2]).h)]

NextSeq == sendRequest \/ acceptRequest \/ rejectRequest \/ unfriend

Spec == Init /\ [][NextSeq]_vars

\* -------------------------------------------------- concurrent handlers
\* A request arrives; the handler runs to the answer of User.findById(userId).
Begin(h) ==
    /\ ~InFlight(h)
    /\ TotalNotes + NumInFlight < MaxConcNotes
    /\ \E op \in Ops, b \in ConcBodies :
          hnd' = [hnd EXCEPT ![h] = begin(db, op, b[1], b[2])]
    /\ UNCHANGED db

\* User.findById(friendId) answers; the handler runs on to its first save.
FindFriend(h) ==
    /\ hnd[h].pc = "findFriend"
    /\ db' = step(db, hnd[h]).db
    /\ hnd' = [hnd EXCEPT ![h] = step(db, hnd[h]).h]

\* user.save() is applied.
SaveUser(h) ==
    /\ hnd[h].pc = "saveUser"
    /\ db' = step(db, hnd[h]).db
    /\ hnd' = [hnd EXCEPT ![h] = step(db, hnd[h]).h]

\* friend.save() is applied and the response is sent.
SaveFriend(h) ==
    /\ hnd[h].pc = "saveFriend"
    /\ db' = step(db, hnd[h]).db
    /\ hnd' = [hnd EXCEPT ![h] = step(db, hnd[h]).h]

NextConc == \E h \in Handlers : Begin(h) \/ FindFriend(h) \/ SaveUser(h) \/ SaveFriend(h)

ConcSpec == Init /\ [][NextConc]_vars


\* ------------------------------------- recommendations over a live graph
\* The interests users registered with (part_001 stores req.body.interests
\* as given).
InterestLists == {<<>>, <<"x", "y">>, <<"y", "y">>}

\* The calls that build the graph: recommendations read friends and
\* interests only, and friends grow by requests and their acceptance.
RecOps == {"request", "accept"}
RecBodies == Users \X Users

RecInit ==
    /\ db \in {[u \in Users |-> [NewUser EXCEPT !.interests = ints[u]]] :
                 ints \in [Users -> InterestLists]}
    /\ hnd = [h \in Handlers |-> Idle]

\* A workflow call that changes the graph; its response is not kept.
workflow ==
    /\ TotalNotes < MaxRecNotes
    /\ \E op \in RecOps, b \in RecBodies :
          /\ Call(op, b[1], b[2]).h.res.status = 200
          /\ db' = Call(op, b[1], b[2]).db
          /\ hnd' = [hnd EXCEPT ![1] = Idle]

\* GET /:userId/recommendations.
recommendations ==
    /\ \E userId \in Ids :
          hnd' = [hnd EXCEPT ![1] = [Idle EXCEPT !.pc = "done", !.op = "recommendations",
                                                !.userId = userId,
                                                !.res = getRecommendations(db, userId)]]
    /\ UNCHANGED db

NextRec == workflow \/ recommendations

RecSpec == RecInit /\ [][NextRec]_vars

\* --------------------------------------------------------- registration
\* POST /register bodies.
RegNames == {"alice", "bob"}
RegInterests == {<<>>, <<"x">>}

UserExists == Response(400, "User already exists")
Registered == Response(201, "User registered successfully")

\* new User({ username, password, interests })
newUser(username, interests) ==
    [username |-> username, friends |-> NewUser.friends,
     friendRequests |-> NewUser.friendRequests, interests |-> interests,
     notifications |-> NewUser.notifications, v |-> NewUser.v]

\* User.findOne({ username }) finds a record.
findOne(coll, username) == \E i \in 1..Len(coll) : coll[i].username = username

RegIdle == [pc |-> "idle", op |-> "register", username |-> "", interests |-> <<>>,
            res |-> NoResponse]

\* The users collection is empty and no register call is running.
RegInit ==
    /\ db = <<>>
    /\ hnd = [h \in Handlers |-> RegIdle]

\* A POST /register arrives.
Register(h) ==
    /\ hnd[h].pc \in {"idle", "done"}
    /\ \E username \in RegNames, interests \in RegInterests :
          hnd' = [hnd EXCEPT ![h] = [RegIdle EXCEPT !.pc = "findOne", !.username = username,
                                                    !.interests = interests]]
    /\ UNCHANGED db

\* await User.findOne({ username }), then the 400 or on to hashing.
FindOne(h) ==
    /\ hnd[h].pc = "findOne"
    /\ hnd' = [hnd EXCEPT ![h] = IF findOne(db, @.username)
                                  THEN [@ EXCEPT !.pc = "done", !.res = UserExists]
                                  ELSE [@ EXCEPT !.pc = "save"]]
    /\ UNCHANGED db

\* await newUser.save(): the insert, which the unique index on username
\* rejects when a record has the name; the catch block answers 500.
SaveNewUser(h) ==
    /\ hnd[h].pc = "save"
    /\ IF findOne(db, hnd[h].username)
       THEN /\ db' = db
            /\ hnd' = [hnd EXCEPT ![h] = [@ EXCEPT !.pc = "done", !.res = ServerError]]
       ELSE /\ db' = Append(db, newUser(hnd[h].username, hnd[h].interests))
            /\ hnd' = [hnd EXCEPT ![h] = [@ EXCEPT !.pc = "done", !.res = Registered]]

NextReg == \E h \in Handlers : Register(h) \/ FindOne(h) \/ SaveNewUser(h)

RegSpec == RegInit /\ [][NextReg]_vars

\* ------------------------------------------------ storage that can fail
\* An awaited findById or save rejects: the catch block answers 500.
StorageFails(h) ==
    /\ InFlight(h)
    /\ hnd' = [hnd EXCEPT ![h] = Respond(@, ServerError)]
    /\ UNCHANGED db

NextFail ==
    \/ Begin(1) \/ FindFriend(1) \/ SaveUser(1) \/ SaveFriend(1)
    \/ StorageFails(1)

FailSpec == Init /\ [][NextFail]_vars

\* ================================================================ claims
\* The whole of POST /<op> with body (userId, friendId) on a stored state.
Outcome(store, op, userId, friendId) == run(store, begin(store, op, userId, friendId))

isFriend(store, A, B) == includes(store[A].friends, B)

isPending(store, A, B) == includes(store[B].friendRequests, A)

Done(h) == hnd[h].pc = "done"

C2_SymmetricInFlight ==
    \A A, B \in Users : isFriend(db, B, A) => isFriend(db, A, B)

\* C3: when a save of acceptRequest, rejectRequest or unfriend fails, no
\* record holds a change of the operation: the handler that answers the
\* server error has written nothing.
C3_AllOrNothing ==
    \A h \in Handlers :
        (Done(h) /\ hnd[h].op \in {"accept", "reject", "unfriend"}
            /\ hnd[h].res = ServerError)
        => hnd[h].written = <<>>

\* The requests A has ever sent to B: each stores one notification on B.
RequestsSent(A, B) ==
    Cardinality({i \in 1..Len(db[B].notifications) :
                    db[B].notifications[i] = Note(A, " has sent you a friend request.")})

\* C4: when two handlers resolve (accept or reject) the one request A has
\* sent to B, one reports success and the other a state-mismatch failure
\* (NoSuchRequest), not a failure of another kind and not a second success.
C4_LoserSeesStateMismatch ==
    \A h, g \in Handlers :
        (/\ h # g /\ Done(h) /\ Done(g)
         /\ hnd[h].op \in {"accept", "reject"} /\ hnd[g].op \in {"accept", "reject"}
         /\ hnd[h].userId = hnd[g].userId /\ hnd[h].friendId = hnd[g].friendId
         /\ hnd[h].userId \in Users /\ hnd[h].friendId \in Users
         /\ RequestsSent(hnd[h].friendId, hnd[h].userId) = 1
         /\ hnd[h].res = Success(hnd[h].op))
        => hnd[g].res = NoSuchRequest

\* C5: for all distinct users A and B, B is never in A's pending requests
\* while A and B are in each other's friends.
C5_PendingDisjointFromFriends ==
    \A A, B \in Users :
        A # B => ~(isPending(db, B, A) /\ isFriend(db, A, B) /\ isFriend(db, B, A))

\* C6: no user is in its own friends or pending requests; sendRequest(A, A)
\* fails as an invalid argument and acceptRequest(A, A) never succeeds.
C6_NoSelfPairs ==
    \A A \in Users :
        /\ ~isFriend(db, A, A)
        /\ ~isPending(db, A, A)
        /\ Outcome(db, "request", A, A).h.res = SelfRequest
        /\ Outcome(db, "request", A, A).db = db
        /\ Outcome(db, "accept", A, A).h.res # RequestAccepted

\* A request of a user to itself has just been refused, with requests and
\* friendships around.
C6_Witness ==
    /\ Done(1) /\ hnd[1].op = "request" /\ hnd[1].res = SelfRequest
    /\ \E A, B \in Users : isFriend(db, A, B)
    /\ \E A, B \in Users : isPending(db, A, B)

\* C7: whenever A is already in B's pending requests, sendRequest(A, B)
\* fails with DuplicateRequest and changes no record.
C7_DuplicateRejected ==
    \A A, B \in Users :
        isPending(db, A, B)
        => /\ Outcome(db, "request", A, B).h.res = DuplicateRequest
           /\ Outcome(db, "request", A, B).db = db

\* C8: whenever A is in B's pending requests and acceptRequest(B, A)
\* succeeds, a second acceptRequest(B, A) right after it fails with
\* NoSuchRequest and changes no record, and so does rejectRequest(B, A).
C8_AcceptConsumesRequest ==
    \A A, B \in Users :
        LET first == Outcome(db, "accept", B, A)
            again == Outcome(first.db, "accept", B, A)
            reject == Outcome(first.db, "reject", B, A)
        IN  (isPending(db, A, B) /\ first.h.res = RequestAccepted)
            => /\ again.h.res = NoSuchRequest /\ again.db = first.db
               /\ reject.h.res = NoSuchRequest /\ reject.db = first.db

\* An accept has just been refused for want of a request, where the only
\* calls that changed a record were one request and its acceptance.
C8_Witness ==
    /\ Done(1) /\ hnd[1].op = "accept" /\ hnd[1].res = NoSuchRequest
    /\ TotalNotes = 2
    /\ \E A, B \in Users :
          /\ A # B /\ isFriend(db, A, B) /\ isFriend(db, B, A)
          /\ db[A].notifications = <<Note(B, " has accepted your friend request.")>>

\* C9: whenever A is in B's pending requests and they are not friends, a
\* successful acceptRequest(B, A) leaves A in B.friends, B in A.friends, A
\* out of B's pending requests, one more notification "{B} has accepted your
\* friend request." at the end of A's, B's notifications as they were, and
\* every third user's record as it was.
C9_AcceptMakesFriends ==
    \A A, B \in Users :
        LET w == Outcome(db, "accept", B, A)
        IN  (/\ isPending(db, A, B) /\ ~isFriend(db, A, B) /\ ~isFriend(db, B, A)
             /\ w.h.res = RequestAccepted)
            => /\ isFriend(w.db, B, A) /\ isFriend(w.db, A, B)
               /\ ~isPending(w.db, A, B)
               /\ w.db[A].notifications =
                     Append(db[A].notifications,
                            Note(B, " has accepted your friend request."))
               /\ w.db[B].notifications = db[B].notifications
               /\ \A C \in Users \ {A, B} : w.db[C] = db[C]

\* An accept has just succeeded: the accepted user holds the notification
\* last, the two are friends, and the request is gone.
C9_Witness ==
    /\ Done(1) /\ hnd[1].op = "accept" /\ hnd[1].res = RequestAccepted
    /\ \E A, B \in Users :
          /\ A # B /\ isFriend(db, A, B) /\ isFriend(db, B, A) /\ ~isPending(db, A, B)
          /\ db[A].notifications # <<>>
          /\ db[A].notifications[Len(db[A].notifications)] =
                Note(B, " has accepted your friend request.")

\* C10: whenever A and B exist and are not in each other's friends,
\* unfriend(A, B) reports no success and changes no record.
C10_UnfriendNeedsFriends ==
    \A A, B \in Users :
        (~isFriend(db, A, B) /\ ~isFriend(db, B, A))
        => /\ Outcome(db, "unfriend", A, B).h.res # Unfriended
           /\ Outcome(db, "unfriend", A, B).db = db

\* The GET /:userId/recommendations that handler 1 answered last.
Recommended == hnd[1].pc = "done" /\ hnd[1].op = "recommendations" /\ hnd[1].res.status = 200

Tags(list) == {list[i] : i \in 1..Len(list)}

\* C11: for every stored graph, the recommendations of U contain neither U
\* nor any user in U's friends.
C11_NoSelfNoFriends ==
    \A U \in Users :
        \A i \in 1..Len(recommend(db, U)) :
            /\ recommend(db, U)[i].id # U
            /\ ~isFriend(db, U, recommend(db, U)[i].id)

\* A user with a friend sharing an interest was answered a non-empty list.
C11_Witness ==
    /\ Recommended
    /\ hnd[1].res.recommendations # <<>>
    /\ \E F \in Users :
          /\ isFriend(db, hnd[1].userId, F)
          /\ commonInterests(db[hnd[1].userId], db[F]) > 0

\* C12: every candidate is listed exactly once, with commonInterests the
\* number of tags in both interest sets and mutualFriends the number of
\* distinct users F with F in U's friends and the candidate in F's friends.
C12_ExactCounts ==
    \A U \in Users :
        LET recs == recommend(db, U)
            shared(C) == Cardinality(Tags(db[U].interests) \cap Tags(db[C].interests))
            mutual(C) == Cardinality({F \in Users : isFriend(db, U, F) /\ isFriend(db, F, C)})
        IN  /\ \A i, j \in 1..Len(recs) : recs[i].id = recs[j].id => i = j
            /\ \A i \in 1..Len(recs) :
                  /\ recs[i].commonInterests = shared(recs[i].id)
                  /\ recs[i].mutualFriends = mutual(recs[i].id)
            /\ \A C \in Users \ {U} :
                  (~isFriend(db, U, C) /\ (shared(C) > 0 \/ mutual(C) > 0))
                  => hasEntry(recs, C)

C14_NotificationsOnlyGrow ==
    [][\A u \in Users :
          /\ Len(db[u].notifications) <= Len(db'[u].notifications)
          /\ SubSeq(db'[u].notifications, 1, Len(db[u].notifications))
                = db[u].notifications]_vars

\* Two handlers that ran together have each stored a notification on the
\* same user.
C14_Witness ==
    /\ Done(1) /\ Done(2)
    /\ \E u \in Users :
          /\ Len(db[u].notifications) >= 2
          /\ Len(hnd[1].written) > 0 /\ hnd[1].written[Len(hnd[1].written)] = u
          /\ Len(hnd[2].written) > 0 /\ hnd[2].written[Len(hnd[2].written)] = u
          /\ db[u].v = 2

\* C15: after any interleaving of register calls no two stored users share
\* a username, every stored user has empty friends, friendRequests and
\* notifications, and a register call that fails because its username is
\* taken answers "User already exists".
C15_UniqueUsernames ==
    /\ \A i, j \in 1..Len(db) : db[i].username = db[j].username => i = j
    /\ \A i \in 1..Len(db) :
          db[i].friends = <<>> /\ db[i].friendRequests = <<>> /\ db[i].notifications = <<>>
    /\ \A h \in Handlers :
          (hnd[h].pc = "done" /\ hnd[h].res # Registered) => hnd[h].res = UserExists

\* C16: sendRequest(A, B) succeeds only when A and B are not friends and no
\* request is pending between them in either direction, so A is never in
\* B's pending requests while B is in A's.
C16_RequestOnlyFromNone ==
    \A A, B \in Users :
        /\ Outcome(db, "request", A, B).h.res = RequestSent
            => /\ ~isFriend(db, A, B) /\ ~isFriend(db, B, A)
               /\ ~isPending(db, A, B) /\ ~isPending(db, B, A)
        /\ A # B => ~(isPending(db, A, B) /\ isPending(db, B, A))

\* C17: whenever A and B are friends, a successful unfriend(A, B) leaves
\* neither in the other's friends nor in the other's pending requests, and
\* a sendRequest(A, B) and a sendRequest(B, A) after it each succeed.
C17_UnfriendReturnsToNone ==
    \A A, B \in Users :
        LET w == Outcome(db, "unfriend", A, B)
        IN  (A # B /\ isFriend(db, A, B) /\ isFriend(db, B, A) /\ w.h.res = Unfriended)
            => /\ ~isFriend(w.db, A, B) /\ ~isFriend(w.db, B, A)
               /\ ~isPending(w.db, A, B) /\ ~isPending(w.db, B, A)
               /\ Outcome(w.db, "request", A, B).h.res = RequestSent
               /\ Outcome(w.db, "request", B, A).h.res = RequestSent

occurrences(arr, id) == Cardinality({i \in 1..Len(arr) : arr[i] = id})

\* C18: no user id occurs more than once in any user's stored friends.
C18_FriendsIsASet ==
    \A A, B \in Users : occurrences(db[A].friends, B) <= 1

\* C19: with sendRequest(A, B) calls running concurrently, A occurs at most
\* once in B's pending requests.
C19_OnePendingEntry ==
    \A A, B \in Users : occurrences(db[B].friendRequests, A) <= 1

\* What the call stored on user u beyond the notifications u had.
appended(w, u) == SubSeq(w.db[u].notifications, Len(db[u].notifications) + 1,
                         Len(w.db[u].notifications))

IsSuccess(res) == res.status = 200

\* The notification a successful POST /<op> of userId announces.
Announcement(op, userId) ==
    Note(userId, CASE op = "request" -> " has sent you a friend request."
                   [] op = "accept" -> " has accepted your friend request."
                   [] op = "reject" -> " has rejected your friend request."
                   [] OTHER -> " has unfriended you.")

\* C20: every successful sendRequest, acceptRequest, rejectRequest or
\* unfriend appends exactly one notification, to the other user of the pair,
\* and none to the caller or a third user; every call that answers an error
\* appends none.
C20_NotificationsOnlyToCounterpart ==
    \A op \in Ops, b \in Bodies :
        LET w == Outcome(db, op, b[1], b[2])
        IN  \A u \in Users :
              appended(w, u) =
                IF IsSuccess(w.h.res) /\ u = b[2] /\ u # b[1]
                THEN <<Announcement(op, b[1])>>
                ELSE <<>>

====
